---------------------------- MODULE Spec2Model ----------------------------
(***************************************************************************)
(* ServiceSync AI: the three agents (src/src/agents.py), the orchestrator  *)
(* (src/src/orchestrator.py) and the database functions                    *)
(* (src/backend/database/models.py) as state machines.                     *)
(*                                                                         *)
(* Python values are modelled as follows.                                  *)
(*  - A JSON value is a tagged record [type, n, s] (JInt, JStr, JNull,     *)
(*    JAbsent for a key the object does not have).                         *)
(*  - The text the backend prints is a sequence of tokens: "{" and "}",    *)
(*    " " (whitespace), "x" (a run of prose that is not JSON) and "b" (a   *)
(*    well-formed list of members                                          *)
(*    "diagnosis": .., "confidence": .., "reasoning": ..  whose values are *)
(*    carried beside the text in run.body).                                *)
(*  - A call that can raise returns [raised |-> <exception name>, ...];    *)
(*    "none" means it returned normally.                                   *)
(***************************************************************************)
EXTENDS Integers, Sequences, FiniteSets, TLC

VARIABLES
    \* Orchestrator.diagnose_problem: arguments, locals and position
    pc, error_code, symptoms, engine_serial, tech_level,
    history, run, diagnosis, decision, result, exc,
    \* one call of a pure function: its arguments and what it returned
    call, ret,
    \* the database file: tables, AUTOINCREMENT counter, the clock, and
    \* the calls made on it so far (history variables)
    fault_codes, decision_logs, seq, now, last, logged, approved, outcomes,
    \* the service_history and engines tables, today's date, and the last
    \* get_service_history call
    service_history, engines, today, query

orchVars == <<pc, error_code, symptoms, engine_serial, tech_level,
              history, run, diagnosis, decision, result, exc>>
fnVars == <<call, ret>>
dbVars == <<fault_codes, decision_logs, seq, now, last, logged, approved, outcomes>>
histVars == <<service_history, engines, today, query>>
vars == <<orchVars, fnVars, dbVars, histVars>>

\* A value that stands for "not assigned yet" / Python None / SQL NULL.
NONE == [type |-> "null", n |-> 0, s |-> ""]

---------------------------------------------------------------------------
(* JSON values *)

JInt(n) == [type |-> "int", n |-> n, s |-> ""]
JStr(s) == [type |-> "str", n |-> 0, s |-> s]
JNull == [type |-> "null", n |-> 0, s |-> ""]
JAbsent == [type |-> "absent", n |-> 0, s |-> ""]

\* A decoded JSON object, restricted to the three keys the program reads.
Dict(d, c, r) == [diagnosis |-> d, confidence |-> c, reasoning |-> r]
EmptyDict == Dict(JAbsent, JAbsent, JAbsent)

---------------------------------------------------------------------------
(* TriageAgent.diagnose *)

\* subprocess.run(..., timeout=30)
TIMEOUT == 30

\* Bound: the longest backend reply, in tokens.
MaxLen == 4

Tok == {"{", "}", " ", "x", "b"}
Replies == UNION {[1..n -> Tok] : n \in 0..MaxLen}

\* The confidence values a reply's member list may carry: integers inside
\* and outside 0..100, a string, null, or no "confidence" key at all.
BodyConfidences ==
    {JInt(-1), JInt(0), JInt(69), JInt(70), JInt(100), JInt(150),
     JStr("high"), JNull, JAbsent}
Bodies == {Dict(JStr("Injector fault"), c, JStr("Symptoms match")) : c \in BodyConfidences}
NoBody == EmptyDict

\* str.strip(): drop leading and trailing whitespace.
RECURSIVE LStrip(_)
LStrip(s) == IF s # <<>> /\ Head(s) = " " THEN LStrip(Tail(s)) ELSE s
RECURSIVE RStrip(_)
RStrip(s) == IF s # <<>> /\ s[Len(s)] = " " THEN RStrip(SubSeq(s, 1, Len(s) - 1)) ELSE s
Strip(s) == RStrip(LStrip(s))

\* str.find(c): the 0-based index of the first c, or -1.
Find(s, c) ==
    IF \E i \in 1..Len(s) : s[i] = c
    THEN (CHOOSE i \in 1..Len(s) : s[i] = c /\ \A j \in 1..(i - 1) : s[j] # c) - 1
    ELSE -1

\* str.rfind(c): the 0-based index of the last c, or -1.
RFind(s, c) ==
    IF \E i \in 1..Len(s) : s[i] = c
    THEN (CHOOSE i \in 1..Len(s) : s[i] = c /\ \A j \in (i + 1)..Len(s) : s[j] # c) - 1
    ELSE -1

\* s[start:end] with Python's rules: a negative index counts from the end,
\* both are clamped to 0..len(s), and start >= end gives the empty string.
PyIndex(i, n) == IF i < 0 THEN (IF i + n < 0 THEN 0 ELSE i + n) ELSE (IF i > n THEN n ELSE i)
Slice(s, start, end) ==
    SubSeq(s, PyIndex(start, Len(s)) + 1, PyIndex(end, Len(s)))

\* json.loads on a token string: whitespace between tokens is skipped; the
\* text decodes iff what is left is an object, empty or holding one member
\* list.  Anything else (the empty string, prose, unbalanced or repeated
\* braces) raises JSONDecodeError.
NonWs(s) == SelectSeq(s, LAMBDA t : t # " ")
json_loads(s, body) ==
    IF NonWs(s) = <<"{", "}">> THEN [raised |-> "none", value |-> EmptyDict]
    ELSE IF NonWs(s) = <<"{", "b", "}">> THEN [raised |-> "none", value |-> body]
    ELSE [raised |-> "JSONDecodeError", value |-> EmptyDict]

Fallback ==
    Dict(JStr("Unable to diagnose"), JInt(0), JStr("Error parsing AI response"))

\* As ParseResponse, but cutting at the first "}" (find for rfind).
ParseResponse_first_close(stdout, body) ==
    LET response == Strip(stdout)
        start == Find(response, "{")
        end == Find(response, "}") + 1
        json_str == Slice(response, start, end)
        decoded == json_loads(json_str, body)
    IN  IF decoded.raised = "none" THEN decoded.value ELSE Fallback

\* Lines 29-41: parse the JSON object out of the reply, or fall back.
ParseResponse(stdout, body) ==
    LET response == Strip(stdout)
        start == Find(response, "{")
        end == RFind(response, "}") + 1
        json_str == Slice(response, start, end)
        decoded == json_loads(json_str, body)
    IN  IF decoded.raised = "none" THEN decoded.value ELSE Fallback

\* What subprocess.run did: the binary could not be started
\* (FileNotFoundError), or it ran for `elapsed` seconds and printed `stdout`
\* (the exit status is not read: a backend that exits with an error and
\* prints nothing is the reply <<>>).
Runs ==
    {[started |-> FALSE, elapsed |-> 0, stdout |-> <<>>, body |-> NoBody]}
    \cup {[started |-> TRUE, elapsed |-> TIMEOUT + 1, stdout |-> <<>>, body |-> NoBody]}
    \cup {[started |-> TRUE, elapsed |-> e, stdout |-> s, body |-> b] :
            e \in {1}, s \in {r \in Replies : \A i \in 1..Len(r) : r[i] # "b"}, b \in {NoBody}}
    \cup {[started |-> TRUE, elapsed |-> e, stdout |-> s, body |-> b] :
            e \in {1}, s \in {r \in Replies : \E i \in 1..Len(r) : r[i] = "b"}, b \in Bodies}

\* TriageAgent.diagnose: subprocess.run stands outside the try block, so
\* what it raises leaves diagnose.
diagnose(r) ==
    IF ~r.started THEN [raised |-> "FileNotFoundError", value |-> EmptyDict]
    ELSE IF r.elapsed > TIMEOUT THEN [raised |-> "TimeoutExpired", value |-> EmptyDict]
    ELSE [raised |-> "none", value |-> ParseResponse(r.stdout, r.body)]

---------------------------------------------------------------------------
(* EvidenceAgent.get_history *)

history_db ==
    [s \in {"ENG-X15-001", "ENG-X15-002"} |->
        IF s = "ENG-X15-001"
        THEN [last_service |-> "2024-01-15",
              repairs |-> <<"Catalytic converter replacement">>,
              mileage |-> "150000"]
        ELSE [last_service |-> "2023-06-20",
              repairs |-> <<"Oil change", "Filter replacement">>,
              mileage |-> "89000"]]

NoHistory == [last_service |-> "", repairs |-> <<>>, mileage |-> ""]

\* ', '.join(seq)
RECURSIVE Join(_)
Join(q) ==
    IF q = <<>> THEN ""
    ELSE IF Len(q) = 1 THEN q[1]
    ELSE q[1] \o ", " \o Join(Tail(q))

get_history(serial) ==
    LET h == IF serial \in DOMAIN history_db THEN history_db[serial] ELSE NoHistory
        summary ==
            IF h # NoHistory
            THEN "Last service: " \o h.last_service \o ". "
                 \o "Recent repairs: " \o Join(h.repairs) \o ". "
                 \o "Mileage: " \o h.mileage
            ELSE "No service history found"
    IN  [engine_serial |-> serial, summary |-> summary, full_history |-> h]

---------------------------------------------------------------------------
(* EscalationAgent.decide *)

Complexities == {"low", "medium", "high"}
TechLevels == {"junior", "intermediate", "senior"}

Decision(d, r, a) == [decision |-> d, reasoning |-> r, requires_approval |-> a]
NoDecision == Decision("", "", FALSE)

decide_rule1_ge(confidence, complexity, level) ==
    IF confidence >= 85 /\ complexity = "low"
    THEN Decision("PROCEED", "High confidence, routine repair", FALSE)
    ELSE IF confidence < 70
    THEN Decision("ESCALATE", "Low confidence, need senior review", TRUE)
    ELSE IF complexity = "high"
    THEN Decision("ESCALATE", "High complexity, need senior approval", TRUE)
    ELSE Decision("PROCEED_WITH_GUIDANCE",
                  "Medium complexity, " \o level \o " tech can handle with guidance",
                  FALSE)

decide(confidence, complexity, level) ==
    IF confidence > 85 /\ complexity = "low"
    THEN Decision("PROCEED", "High confidence, routine repair", FALSE)
    ELSE IF confidence < 70
    THEN Decision("ESCALATE", "Low confidence, need senior review", TRUE)
    ELSE IF complexity = "high"
    THEN Decision("ESCALATE", "High complexity, need senior approval", TRUE)
    ELSE Decision("PROCEED_WITH_GUIDANCE",
                  "Medium complexity, " \o level \o " tech can handle with guidance",
                  FALSE)

---------------------------------------------------------------------------
(* Orchestrator.diagnose_problem *)

ErrorCodes == {"P0420"}
Symptoms == {"Rough idle at cold start, black smoke"}
EngineSerials == {"ENG-X15-001", "ENG-UNKNOWN"}

NoRun == [started |-> FALSE, elapsed |-> 0, stdout |-> <<>>, body |-> NoBody,
          prompt |-> [error_code |-> "", symptoms |-> "", context |-> ""]]
NoHistoryYet == [engine_serial |-> "", summary |-> "", full_history |-> NoHistory]
NoResult ==
    [timestamp |-> 0,
     input |-> [error_code |-> "", symptoms |-> "", engine_serial |-> "", tech_level |-> ""],
     service_history |-> NoHistoryYet, diagnosis |-> EmptyDict, decision |-> NoDecision]

\* The outcome arguments of a call that has none (all NULL).
NoArgs == [actual_repair |-> "NULL", parts_used |-> [json |-> <<"NULL">>],
           repair_successful |-> "NULL"]
NoCall == [op |-> "", id |-> 0, raised |-> "none", result |-> <<>>, args |-> NoArgs]

\* The database as create_database leaves it, and no call made on it yet.
DbIdle ==
    /\ fault_codes = {}
    /\ decision_logs = {}
    /\ seq = 0
    /\ now = 0
    /\ last = NoCall
    /\ logged = <<>>
    /\ approved = {}
    /\ outcomes = {}
\* No get_service_history call made yet.
NoQuery == [engine_serial |-> "", months_back |-> 0, ids |-> <<>>, result |-> <<>>]

\* The service-history side is not exercised: empty tables, no query.
HistIdle ==
    /\ service_history = <<>>
    /\ engines = {}
    /\ today = 0
    /\ query = NoQuery

FnIdle ==
    /\ call = [fn |-> "", done |-> FALSE]
    /\ ret = NONE

OrchInit ==
    /\ pc = "history"
    /\ error_code \in ErrorCodes
    /\ symptoms \in Symptoms
    /\ engine_serial \in EngineSerials
    /\ tech_level \in TechLevels
    /\ history = NoHistoryYet
    /\ run = NoRun
    /\ diagnosis = EmptyDict
    /\ decision = NoDecision
    /\ result = NoResult
    /\ exc = "none"

\* Step 1 (lines 17-19): service history.
GetHistory ==
    /\ pc = "history"
    /\ history' = get_history(engine_serial)
    /\ pc' = "triage"
    /\ UNCHANGED <<error_code, symptoms, engine_serial, tech_level,
                   run, diagnosis, decision, result, exc>>
    /\ UNCHANGED <<fnVars, dbVars, histVars>>

\* The arguments of the triage.diagnose call (lines 22-26).
Prompt_no_context(code, symp, hist) ==
    [error_code |-> code, symptoms |-> symp, context |-> ""]

Prompt(code, symp, hist) ==
    [error_code |-> code, symptoms |-> symp, context |-> hist.summary]

\* The escalation.decide call (lines 33-37).
EscalationCall_low(diag, level) ==
    decide(diag.confidence.n, "low", level)

EscalationCall(diag, level) ==
    decide(diag.confidence.n, "medium", level)

\* Step 2 (lines 21-29): the backend is run with the history summary as
\* context, its reply is parsed, and the two prints subscript the result.
Triage ==
    /\ pc = "triage"
    /\ \E r \in Runs :
        LET d == diagnose(r)
            keyError == d.value.diagnosis.type = "absent"
                        \/ d.value.confidence.type = "absent"
        IN  /\ run' = [started |-> r.started, elapsed |-> r.elapsed,
                       stdout |-> r.stdout, body |-> r.body,
                       prompt |-> Prompt(error_code, symptoms, history)]
            /\ IF d.raised # "none"
               THEN /\ exc' = d.raised
                    /\ pc' = "raised"
                    /\ UNCHANGED diagnosis
               ELSE /\ diagnosis' = d.value
                    /\ exc' = IF keyError THEN "KeyError" ELSE "none"
                    /\ pc' = IF keyError THEN "raised" ELSE "escalation"
    /\ UNCHANGED <<error_code, symptoms, engine_serial, tech_level,
                   history, decision, result>>
    /\ UNCHANGED <<fnVars, dbVars, histVars>>

\* Step 3 (lines 31-39): the escalation decision, always with complexity
\* "medium".  Comparing a str or None confidence with 85 raises TypeError.
Escalate ==
    /\ pc = "escalation"
    /\ IF diagnosis.confidence.type = "int"
       THEN /\ decision' = EscalationCall(diagnosis, tech_level)
            /\ pc' = "return"
            /\ UNCHANGED exc
       ELSE /\ exc' = "TypeError"
            /\ pc' = "raised"
            /\ UNCHANGED decision
    /\ UNCHANGED <<error_code, symptoms, engine_serial, tech_level,
                   history, run, diagnosis, result>>
    /\ UNCHANGED <<fnVars, dbVars, histVars>>

\* Lines 41-53: the bundle returned.
Return ==
    /\ pc = "return"
    /\ result' = [timestamp |-> now,
                  input |-> [error_code |-> error_code, symptoms |-> symptoms,
                             engine_serial |-> engine_serial, tech_level |-> tech_level],
                  service_history |-> history,
                  diagnosis |-> diagnosis,
                  decision |-> decision]
    /\ pc' = "done"
    /\ UNCHANGED <<error_code, symptoms, engine_serial, tech_level,
                   history, run, diagnosis, decision, exc>>
    /\ UNCHANGED <<fnVars, dbVars, histVars>>

OrchNext == GetHistory \/ Triage \/ Escalate \/ Return

\* No orchestrator run in progress.
OrchIdle ==
    /\ pc = "idle"
    /\ error_code = ""
    /\ symptoms = ""
    /\ engine_serial = ""
    /\ tech_level = ""
    /\ history = NoHistoryYet
    /\ run = NoRun
    /\ diagnosis = EmptyDict
    /\ decision = NoDecision
    /\ result = NoResult
    /\ exc = "none"

InitOrch == OrchInit /\ FnIdle /\ DbIdle /\ HistIdle

SpecOrch == InitOrch /\ [][OrchNext]_vars

---------------------------------------------------------------------------
(* Claims about the diagnosis pipeline (checked under SpecOrch) *)

\* The backend call is over: run holds what subprocess.run did.
TriageDone == pc \in {"escalation", "return", "done", "raised"} /\ run # NoRun

Completed(r) == r.started /\ r.elapsed <= TIMEOUT
Opens(s) == {i \in 1..Len(s) : s[i] = "{"}
Closes(s) == {i \in 1..Len(s) : s[i] = "}"}
\* The reply holds a "{" with a "}" after it.
HasPair(s) == \E i \in Opens(s) : \E j \in Closes(s) : i < j
\* The text from the first "{" to the last "}".
BraceSpan(s) ==
    SubSeq(s, CHOOSE i \in Opens(s) : \A k \in Opens(s) : i <= k,
              CHOOSE j \in Closes(s) : \A k \in Closes(s) : k <= j)
Decodes(r) == HasPair(r.stdout) /\ json_loads(BraceSpan(r.stdout), r.body).raised = "none"
Decoded(r) == json_loads(BraceSpan(r.stdout), r.body).value
\* The backend yielded a well-formed diagnosis: a decodable object whose
\* confidence is an integer in 0..100.
WellFormed(r) ==
    /\ Completed(r)
    /\ Decodes(r)
    /\ Decoded(r).confidence.type = "int"
    /\ Decoded(r).confidence.n \in 0..100

\* C1 (as claimed): no run of diagnose_problem whose backend call failed to
\* yield a well-formed diagnosis returns a decision with
\* requires_approval = false.
C1_BrokenReplyNeverUnsupervised ==
    ~(pc = "done" /\ ~WellFormed(run) /\ result.decision.requires_approval = FALSE)

\* C2: for a reply the backend delivered, diagnose returns the decoded
\* first-"{"-to-last-"}" substring when it decodes, and otherwise (no
\* "{"/"}" pair, or an undecodable substring) exactly the fallback, raising
\* nothing.
C2_ParseOrFallback ==
    (TriageDone /\ Completed(run)) =>
        IF Decodes(run)
        THEN diagnosis = Decoded(run)
        ELSE diagnosis = Fallback /\ exc = "none" /\ pc # "raised"

\* C2 witness: a delivered reply with a brace pair whose substring does not
\* decode, answered by the fallback.
C2_Witness ==
    /\ pc = "escalation"
    /\ Completed(run)
    /\ HasPair(run.stdout)
    /\ ~Decodes(run)
    /\ diagnosis = Fallback

\* C3 (as claimed): when the backend call times out or the backend cannot
\* be reached, diagnose returns the fallback and no error is propagated.
C3_TimeoutIsFallback ==
    (TriageDone /\ ~Completed(run)) => (exc = "none" /\ diagnosis = Fallback)

---------------------------------------------------------------------------
(* EscalationAgent.decide as a pure function (SpecDecide) *)

ConfidenceRange == 0..100

InitDecide ==
    /\ call \in [fn : {"decide"}, done : {FALSE}, confidence : ConfidenceRange,
                 complexity : Complexities, tech_level : TechLevels]
    /\ ret = NoDecision
    /\ OrchIdle
    /\ HistIdle
    /\ DbIdle

CallDecide ==
    /\ call.fn = "decide"
    /\ ~call.done
    /\ ret' = decide(call.confidence, call.complexity, call.tech_level)
    /\ call' = [call EXCEPT !.done = TRUE]
    /\ UNCHANGED <<orchVars, dbVars, histVars>>

SpecDecide == InitDecide /\ [][CallDecide]_vars

\* The number of the first rule of the escalation policy that matches.
FirstRule(confidence, complexity) ==
    IF confidence > 85 /\ complexity = "low" THEN 1
    ELSE IF confidence < 70 THEN 2
    ELSE IF complexity = "high" THEN 3
    ELSE 4
RuleLabel == <<"PROCEED", "ESCALATE", "ESCALATE", "PROCEED_WITH_GUIDANCE">>
RuleApproval == <<FALSE, TRUE, TRUE, FALSE>>

\* C4: decide returns the label and requires_approval of the first matching
\* rule; neither depends on the tech skill, which changes the reasoning
\* text of rule 4 only.
C4_FirstRuleWins ==
    call.done =>
        LET k == FirstRule(call.confidence, call.complexity)
        IN  /\ ret.decision = RuleLabel[k]
            /\ ret.requires_approval = RuleApproval[k]
            /\ \A t \in TechLevels :
                LET other == decide(call.confidence, call.complexity, t)
                IN  /\ other.decision = ret.decision
                    /\ other.requires_approval = ret.requires_approval
                    /\ (k # 4 => other.reasoning = ret.reasoning)
                    /\ (k = 4 /\ t # call.tech_level => other.reasoning # ret.reasoning)

\* C4 witness: confidence 75 with high complexity was decided, by rule 3.
C4_Witness ==
    /\ call.done
    /\ call.confidence = 75
    /\ call.complexity = "high"
    /\ ret.decision = "ESCALATE"
    /\ ret.requires_approval = TRUE

---------------------------------------------------------------------------
(* Fault codes: resolve_fault_code and the lookups *)

\* A string is a sequence of one-character strings.
DigitChars == <<"0", "1", "2", "3", "4", "5", "6", "7", "8", "9">>
LowerChars == <<"a", "b", "c", "d", "e", "f", "g", "h", "i", "j", "k", "l", "m",
                "n", "o", "p", "q", "r", "s", "t", "u", "v", "w", "x", "y", "z">>
UpperChars == <<"A", "B", "C", "D", "E", "F", "G", "H", "I", "J", "K", "L", "M",
                "N", "O", "P", "Q", "R", "S", "T", "U", "V", "W", "X", "Y", "Z">>
IsDigit(c) == \E i \in 1..10 : DigitChars[i] = c
DigitVal(c) == (CHOOSE i \in 1..10 : DigitChars[i] = c) - 1

\* str.upper()
UpperChar(c) ==
    IF \E i \in 1..26 : LowerChars[i] = c
    THEN UpperChars[CHOOSE i \in 1..26 : LowerChars[i] = c]
    ELSE c
Upper(s) == [i \in 1..Len(s) |-> UpperChar(s[i])]

\* The value of a run of digits.
RECURSIVE DigitsToInt(_)
DigitsToInt(s) ==
    IF s = <<>> THEN 0 ELSE 10 * DigitsToInt(SubSeq(s, 1, Len(s) - 1)) + DigitVal(s[Len(s)])

\* str(n) for an integer n >= 0.
RECURSIVE IntToDigits(_)
IntToDigits(n) ==
    IF n < 10 THEN <<DigitChars[n + 1]>>
    ELSE Append(IntToDigits(n \div 10), DigitChars[(n % 10) + 1])

\* str(code_input): the input is a string or an integer.
StrInput(chars) == [kind |-> "str", chars |-> chars, n |-> 0]
IntInput(n) == [kind |-> "int", chars |-> <<>>, n |-> n]
PyStr(x) == IF x.kind = "int" THEN IntToDigits(x.n) ELSE x.chars

\* Regular expression pieces: the index after \s* and after \d* from i.
RECURSIVE SkipSpaces(_, _)
SkipSpaces(s, i) == IF i <= Len(s) /\ s[i] = " " THEN SkipSpaces(s, i + 1) ELSE i
RECURSIVE SkipDigits(_, _)
SkipDigits(s, i) == IF i <= Len(s) /\ IsDigit(s[i]) THEN SkipDigits(s, i + 1) ELSE i
LitAt(s, i, lit) == i + Len(lit) - 1 <= Len(s) /\ SubSeq(s, i, i + Len(lit) - 1) = lit

\* A match: its groups and the index after its last character.
NoMatch == [ok |-> FALSE, g1 |-> <<>>, g2 |-> <<>>, end |-> 0]

\* re.match(r'SPN\s*(\d+)\s*FMI\s*(\d+)', s): anchored at the start only.
MatchSpnFmi(s) ==
    LET a == SkipSpaces(s, 4)
        b == SkipDigits(s, a)
        c == SkipSpaces(s, b)
        d == SkipSpaces(s, c + 3)
        e == SkipDigits(s, d)
    IN  IF LitAt(s, 1, <<"S", "P", "N">>) /\ b > a
           /\ LitAt(s, c, <<"F", "M", "I">>) /\ e > d
        THEN [ok |-> TRUE, g1 |-> SubSeq(s, a, b - 1), g2 |-> SubSeq(s, d, e - 1), end |-> e]
        ELSE NoMatch

\* re.match(r'^P\d{4}$', s)
MatchObd2(s) ==
    IF Len(s) = 5 /\ s[1] = "P" /\ \A i \in 2..5 : IsDigit(s[i])
    THEN [ok |-> TRUE, g1 |-> s, g2 |-> <<>>, end |-> 6]
    ELSE NoMatch

\* re.match(r'^(SID|PID)\s*(\d+)$', s)
MatchPidSid(s) ==
    LET a == SkipSpaces(s, 4)
        b == SkipDigits(s, a)
    IN  IF (LitAt(s, 1, <<"S", "I", "D">>) \/ LitAt(s, 1, <<"P", "I", "D">>))
           /\ b > a /\ b = Len(s) + 1
        THEN [ok |-> TRUE, g1 |-> SubSeq(s, 1, 3), g2 |-> SubSeq(s, a, b - 1), end |-> b]
        ELSE NoMatch

\* int(s): an optional sign, then digits with single underscores allowed
\* between them; anything else raises ValueError (ok = FALSE).
PyInt(s) ==
    LET signed == s # <<>> /\ s[1] \in {"+", "-"}
        body == IF signed THEN Tail(s) ELSE s
        digits == SelectSeq(body, IsDigit)
        wellFormed ==
            /\ body # <<>>
            /\ \A i \in 1..Len(body) : IsDigit(body[i]) \/ body[i] = "_"
            /\ IsDigit(body[1]) /\ IsDigit(body[Len(body)])
            /\ \A i \in 1..(Len(body) - 1) : ~(body[i] = "_" /\ body[i + 1] = "_")
    IN  IF wellFormed
        THEN [ok |-> TRUE,
              n |-> IF signed /\ s[1] = "-" THEN 0 - DigitsToInt(digits) ELSE DigitsToInt(digits)]
        ELSE [ok |-> FALSE, n |-> 0]

\* A fault_codes row; -1 and <<>> stand for a NULL number and a NULL string.
FaultCode(id, oem, spn, fmi, obd2, pidsid) ==
    [id |-> id, cummins_code |-> oem, spn |-> spn, fmi |-> fmi,
     obd2_code |-> obd2, pid_sid |-> pidsid]
NoRow == FaultCode(0, -1, -1, -1, <<>>, <<>>)

FaultCodeTables ==
    {{},
     {FaultCode(1, 559, 157, 18, <<"P", "0", "0", "8", "7">>, <<"P", "I", "D", " ", "1", "5", "7">>),
      FaultCode(2, 1117, 627, 2, <<"P", "0", "4", "2", "0">>, <<"S", "I", "D", " ", "2", "7">>)}}

typical_causes ==
    {[fault_code_id |-> 1, cause |-> "Fuel filter restriction"],
     [fault_code_id |-> 1, cause |-> "Lift pump failure"],
     [fault_code_id |-> 2, cause |-> "Battery voltage dropout"]}
edge_cases ==
    {[fault_code_id |-> 1, scenario |-> "Filter replaced last week"]}

Found(row) == [raised |-> "none", found |-> TRUE, row |-> row,
               typical_causes |-> {c \in typical_causes : c.fault_code_id = row.id},
               edge_cases |-> {c \in edge_cases : c.fault_code_id = row.id}]
NotFound == [raised |-> "none", found |-> FALSE, row |-> NoRow,
             typical_causes |-> {}, edge_cases |-> {}]
Raised(e) == [raised |-> e, found |-> FALSE, row |-> NoRow,
              typical_causes |-> {}, edge_cases |-> {}]

\* cursor.fetchone() enriched with the row's causes and edge cases, or None.
\* The notations are unique per row, so at most one row matches.
_enrich_fault_code(rows) ==
    IF rows = {} THEN NotFound ELSE Found(CHOOSE r \in rows : TRUE)

get_fault_code_by_spn_fmi(table, spn, fmi) ==
    _enrich_fault_code({r \in table : r.spn = spn /\ r.fmi = fmi})
get_fault_code_by_obd2(table, obd2_code) ==
    _enrich_fault_code({r \in table : r.obd2_code = Upper(obd2_code)})
get_fault_code_by_cummins_code(table, cummins_code) ==
    _enrich_fault_code({r \in table : r.cummins_code = cummins_code})
get_fault_code_by_pid_sid(table, pid_sid) ==
    _enrich_fault_code({r \in table : r.pid_sid = Upper(pid_sid)})

\* The names bound at module level in models.py by its import statements.
Imports == {"sqlite3", "os", "json", "datetime"}

\* Lines 101-129: the notations in priority order, first match wins.
resolve_by_notation(table, code_str) ==
    LET spn_fmi_match == MatchSpnFmi(code_str)
        obd2_match == MatchObd2(code_str)
        pid_sid_match == MatchPidSid(code_str)
        cummins_num == PyInt(code_str)
    IN  IF spn_fmi_match.ok
        THEN get_fault_code_by_spn_fmi(table, DigitsToInt(spn_fmi_match.g1),
                                       DigitsToInt(spn_fmi_match.g2))
        ELSE IF obd2_match.ok
        THEN get_fault_code_by_obd2(table, code_str)
        ELSE IF pid_sid_match.ok
        THEN get_fault_code_by_pid_sid(table, pid_sid_match.g1 \o <<" ">> \o pid_sid_match.g2)
        ELSE IF cummins_num.ok
        THEN get_fault_code_by_cummins_code(table, cummins_num.n)
        ELSE NotFound

\* resolve_fault_code: line 102 evaluates the name re, which no import
\* binds, so the call raises NameError before any pattern is tried.
resolve_fault_code(table, code_input) ==
    LET code_str == Upper(Strip(PyStr(code_input)))
    IN  IF "re" \notin Imports
        THEN Raised("NameError")
        ELSE resolve_by_notation(table, code_str)

\* The inputs tried: every spelling of "SPN <n> FMI <m>" built from the
\* parts below, and a list of other strings and integers.
Cat(parts) == parts[1] \o parts[2] \o parts[3] \o parts[4] \o parts[5] \o parts[6] \o parts[7] \o parts[8] \o parts[9]
Blank == {<<>>, <<" ">>}
SpnFmiInputs ==
    {Cat(<<lead, spn, s1, n1, s2, fmi, s3, n2, trail>>) :
        lead \in Blank,
        spn \in {<<"S", "P", "N">>, <<"s", "p", "n">>},
        s1 \in Blank,
        n1 \in {<<"1", "5", "7">>, <<"3">>},
        s2 \in Blank,
        fmi \in {<<"F", "M", "I">>, <<"f", "m", "i">>},
        s3 \in Blank,
        n2 \in {<<"1", "8">>, <<"4">>},
        trail \in {<<>>, <<" ">>, <<"X">>}}
OtherInputs ==
    {<<"P", "0", "4", "2", "0">>,
     <<"p", "0", "4", "2", "0">>,
     <<"P", "0", "0", "8", "7">>,
     <<"P", "0", "4", "2">>,
     <<"P", "0", "4", "2", "0", "0">>,
     <<"P", "0", "4", "2", "0", "X">>,
     <<"X", "P", "0", "4", "2", "0">>,
     <<"S", "I", "D", " ", "2", "7">>,
     <<"S", "I", "D", "2", "7">>,
     <<"s", "i", "d", " ", "2", "7">>,
     <<"p", "i", "d", " ", "1", "5", "7">>,
     <<"P", "I", "D", " ", " ", "1", "5", "7">>,
     <<"S", "I", "D", " ", "2", "7", "X">>,
     <<"S", "I", "D">>,
     <<"5", "5", "9">>,
     <<" ", "5", "5", "9", " ">>,
     <<"+", "5", "5", "9">>,
     <<"-", "5", "5", "9">>,
     <<"5", "_", "5", "9">>,
     <<"5", "5", " ", "9">>,
     <<"5", "5", "9", "X">>,
     <<"1", "1", "1", "7">>,
     <<"0">>,
     <<"n", "o", "t", "a", "c", "o", "d", "e">>,
     <<"S", "P", "N", "1", "5", "7">>,
     <<"S", "P", "N", " ", "1", "5", "7">>,
     <<"F", "M", "I", " ", "1", "8">>,
     <<"S", "P", "N", " ", "1", "5", "7", " ", "F", "M", "I">>,
     <<>>,
     <<" ">>,
     <<"S", "P", "N", " ", "1", "5", "7", " ", "F", "M", "I", " ", "1", "8", " ", "j", "u", "n", "k">>,
     <<"S", "P", "N", " ", "1", "5", "7", " ", "F", "M", "I", " ", "1", "8", "9">>}
CodeInputs ==
    {StrInput(c) : c \in SpnFmiInputs \cup OtherInputs}
    \cup {IntInput(n) : n \in {0, 559, 1117}}

InitResolve ==
    /\ call \in [fn : {"resolve_fault_code"}, done : {FALSE}, code_input : CodeInputs]
    /\ ret = NotFound
    /\ OrchIdle
    /\ HistIdle
    /\ fault_codes \in FaultCodeTables
    /\ decision_logs = {}
    /\ seq = 0
    /\ now = 0
    /\ last = NoCall
    /\ logged = <<>>
    /\ approved = {}
    /\ outcomes = {}

CallResolve ==
    /\ call.fn = "resolve_fault_code"
    /\ ~call.done
    /\ ret' = resolve_fault_code(fault_codes, call.code_input)
    /\ call' = [call EXCEPT !.done = TRUE]
    /\ UNCHANGED <<orchVars, dbVars, histVars>>

SpecResolve == InitResolve /\ [][CallResolve]_vars

---------------------------------------------------------------------------
(* Decision logs: log_decision, get_pending_escalations, approve_decision,
   record_outcome *)

\* SQL NULL in a text column and in a timestamp or integer column.
NullStr == "NULL"
NullTime == -1

\* Bounds: the log_decision calls made, the largest id a caller passes,
\* and the last reading of the clock.
MaxLogs == 2
MaxId == 2
MaxClock == 2

Approvers == {"senior-7", "senior-9"}
Repairs == {"Replaced fuel filter"}
PartsLists == {<<"FF5488">>}
LogInputs ==
    {StrInput(<<"5", "5", "9">>), StrInput(<<"n", "o", "t", "a", "c", "o", "d", "e">>)}

\* The arguments of one log_decision call (the fields that vary).
LogRequests ==
    [engine_serial : {"ENG-X15-001"}, fault_code_input : LogInputs, tech_id : {"T-1"},
     triage_confidence : {90}, escalation_decision : {"ESCALATE"},
     requires_approval : BOOLEAN]

\* json.dumps of a list of part numbers: the text stored in parts_used.
json_dumps(parts) == [json |-> parts]
NoParts == [json |-> <<"NULL">>]

\* The row the INSERT of log_decision writes: the columns it names get the
\* arguments, the columns it does not name (the outcome columns) get NULL.
NewRow(id, t, req, fault_code_id) ==
    [id |-> id, timestamp |-> t,
     engine_serial |-> req.engine_serial,
     fault_code_input |-> req.fault_code_input,
     fault_code_id |-> fault_code_id,
     tech_id |-> req.tech_id,
     triage_confidence |-> req.triage_confidence,
     escalation_decision |-> req.escalation_decision,
     requires_approval |-> req.requires_approval,
     approved_by |-> NullStr, approval_timestamp |-> NullTime,
     actual_repair |-> NullStr, parts_used |-> NoParts, repair_successful |-> NullStr,
     updated_at |-> t]

Ids(table) == {r.id : r \in table}

\* log_decision: the fault code is resolved first (line 222); what
\* resolve_fault_code raises leaves log_decision before the INSERT.
LogDecision ==
    /\ Len(logged) < MaxLogs
    /\ \E req \in LogRequests :
        LET resolved == resolve_fault_code(fault_codes, req.fault_code_input)
            fault_code_id == IF resolved.found THEN resolved.row.id ELSE 0
            decision_id == seq + 1
        IN  /\ logged' = Append(logged, req)
            /\ IF resolved.raised # "none"
               THEN /\ last' = [op |-> "log_decision", id |-> 0,
                                raised |-> resolved.raised, result |-> <<>>, args |-> NoArgs]
                    /\ UNCHANGED <<decision_logs, seq>>
               ELSE /\ decision_logs' =
                        decision_logs \cup {NewRow(decision_id, now, req, fault_code_id)}
                    /\ seq' = decision_id
                    /\ last' = [op |-> "log_decision", id |-> decision_id,
                                raised |-> "none", result |-> <<>>, args |-> NoArgs]
    /\ UNCHANGED <<fault_codes, now, approved, outcomes>>
    /\ UNCHANGED <<orchVars, fnVars, histVars>>

\* The rows of get_pending_escalations' WHERE clause.
PendingRows(table) ==
    {r \in table : r.requires_approval /\ r.approved_by = NullStr}

\* What get_pending_escalations may return: the pending rows ORDER BY
\* timestamp DESC, rows of equal timestamp in any order.
get_pending_escalations(table) ==
    LET rows == PendingRows(table)
        n == Cardinality(rows)
    IN  {q \in [1..n -> rows] :
            /\ \A i, j \in 1..n : i # j => q[i] # q[j]
            /\ \A i \in 1..(n - 1) : q[i].timestamp >= q[i + 1].timestamp}

GetPendingEscalations ==
    /\ \E q \in get_pending_escalations(decision_logs) :
        last' = [op |-> "get_pending_escalations", id |-> 0, raised |-> "none", result |-> q, args |-> NoArgs]
    /\ UNCHANGED <<fault_codes, decision_logs, seq, now, logged, approved, outcomes>>
    /\ UNCHANGED <<orchVars, fnVars, histVars>>

\* As approve_rows, but inserting a row for an id that does not exist.
approve_rows_upsert(table, decision_id, by, t) ==
    IF decision_id \in Ids(table)
    THEN {IF r.id = decision_id
          THEN [r EXCEPT !.approved_by = by, !.approval_timestamp = t, !.updated_at = t]
          ELSE r : r \in table}
    ELSE table \cup {[id |-> decision_id, timestamp |-> t,
                      engine_serial |-> NullStr, fault_code_input |-> StrInput(<<>>),
                      fault_code_id |-> 0, tech_id |-> NullStr,
                      triage_confidence |-> 0, escalation_decision |-> NullStr,
                      requires_approval |-> FALSE,
                      approved_by |-> by, approval_timestamp |-> t,
                      actual_repair |-> NullStr, parts_used |-> NoParts,
                      repair_successful |-> NullStr, updated_at |-> t]}

\* The UPDATE of approve_decision: every row WHERE id = ? (none, if the id
\* does not exist).
approve_rows(table, decision_id, by, t) ==
    {IF r.id = decision_id
     THEN [r EXCEPT !.approved_by = by, !.approval_timestamp = t, !.updated_at = t]
     ELSE r : r \in table}

ApproveDecision ==
    /\ \E decision_id \in 1..MaxId, by \in Approvers \cup {NullStr} :
        /\ decision_logs' = approve_rows(decision_logs, decision_id, by, now)
        /\ approved' = approved \cup {decision_id}
        /\ last' = [op |-> "approve_decision", id |-> decision_id,
                    raised |-> "none", result |-> <<>>, args |-> NoArgs]
    /\ UNCHANGED <<fault_codes, seq, now, logged, outcomes>>
    /\ UNCHANGED <<orchVars, fnVars, histVars>>

\* The UPDATE of record_outcome.
outcome_rows(table, decision_id, repair, parts, success, t) ==
    {IF r.id = decision_id
     THEN [r EXCEPT !.actual_repair = repair, !.parts_used = json_dumps(parts),
                    !.repair_successful = success, !.updated_at = t]
     ELSE r : r \in table}

RecordOutcome ==
    /\ \E decision_id \in 1..MaxId, repair \in Repairs, parts \in PartsLists,
          success \in {"true", "false"} :
        /\ decision_logs' = outcome_rows(decision_logs, decision_id, repair, parts, success, now)
        /\ outcomes' = outcomes \cup {decision_id}
        /\ last' = [op |-> "record_outcome", id |-> decision_id,
                    raised |-> "none", result |-> <<>>,
                    args |-> [actual_repair |-> repair, parts_used |-> json_dumps(parts),
                              repair_successful |-> success]]
    /\ UNCHANGED <<fault_codes, seq, now, logged, approved>>
    /\ UNCHANGED <<orchVars, fnVars, histVars>>

\* get_decision_log: the row with that id as a one-row sequence, or <<>>
\* for None.
get_decision_log(table, decision_id) ==
    IF decision_id \in Ids(table)
    THEN <<CHOOSE r \in table : r.id = decision_id>>
    ELSE <<>>

GetDecisionLog ==
    /\ \E decision_id \in 1..MaxId :
        last' = [op |-> "get_decision_log", id |-> decision_id, raised |-> "none",
                 result |-> get_decision_log(decision_logs, decision_id), args |-> NoArgs]
    /\ UNCHANGED <<fault_codes, decision_logs, seq, now, logged, approved, outcomes>>
    /\ UNCHANGED <<orchVars, fnVars, histVars>>

\* Time passes between calls (datetime.now()).
Tick ==
    /\ now < MaxClock
    /\ now' = now + 1
    /\ UNCHANGED <<fault_codes, decision_logs, seq, last, logged, approved, outcomes>>
    /\ UNCHANGED <<orchVars, fnVars, histVars>>

InitDb ==
    /\ fault_codes \in {t \in FaultCodeTables : t # {}}
    /\ decision_logs = {}
    /\ seq = 0
    /\ now = 0
    /\ last = NoCall
    /\ logged = <<>>
    /\ approved = {}
    /\ outcomes = {}
    /\ FnIdle
    /\ OrchIdle
    /\ HistIdle

DbNext ==
    \/ LogDecision
    \/ GetPendingEscalations
    \/ ApproveDecision
    \/ RecordOutcome
    \/ GetDecisionLog
    \/ Tick

SpecDb == InitDb /\ [][DbNext]_vars

---------------------------------------------------------------------------
(* Claims about resolve_fault_code (checked under SpecResolve) *)

CodeStr == Upper(Strip(PyStr(call.code_input)))

\* C5 (as claimed): resolve_fault_code returns the lookup of the first
\* notation, in the order SPN/FMI, OBD-II, PID/SID, OEM number, that the
\* trimmed, uppercased input matches.
C5_FirstNotationWins ==
    call.done => ret = resolve_by_notation(fault_codes, CodeStr)

\* The input is, in full, a code in one of the four notations.
MatchesInFull(s) ==
    \/ MatchSpnFmi(s).ok /\ MatchSpnFmi(s).end = Len(s) + 1
    \/ MatchObd2(s).ok
    \/ MatchPidSid(s).ok
    \/ PyInt(s).ok

\* C6 (as claimed): resolve_fault_code never raises, and returns NotFound
\* for an input that is not in full a code in one of the four notations.
C6_FailsClosed ==
    call.done =>
        /\ ret.raised = "none"
        /\ (~MatchesInFull(CodeStr) => ~ret.found)

---------------------------------------------------------------------------
(* Claims about the decision log (checked under SpecDb) *)

ApprovalSet(r) == r.approved_by # NullStr \/ r.approval_timestamp # NullTime
OutcomeSet(r) ==
    r.actual_repair # NullStr \/ r.parts_used # NoParts \/ r.repair_successful # NullStr

C8_OutcomeNullUntilFilled ==
    /\ last.op = "log_decision" =>
          /\ last.raised = "none"
          /\ \E r \in decision_logs :
                r.id = last.id /\ ~ApprovalSet(r) /\ ~OutcomeSet(r)
    /\ \A r \in decision_logs :
          /\ ApprovalSet(r) => r.id \in approved
          /\ OutcomeSet(r) => r.id \in outcomes

C10_UnknownIdIsNoOp ==
    [][(/\ last'.op \in {"approve_decision", "record_outcome"}
        /\ last'.id \notin Ids(decision_logs))
       => (/\ last'.raised = "none"
           /\ decision_logs' = decision_logs
           /\ get_pending_escalations(decision_logs') = get_pending_escalations(decision_logs))
      ]_vars

\* C10 witness: approve_decision and record_outcome have both been called
\* with ids that match no row, the last of them returning normally.
C10_Witness ==
    /\ last.op \in {"approve_decision", "record_outcome"}
    /\ last.raised = "none"
    /\ approved # {}
    /\ outcomes # {}
    /\ (approved \cup outcomes) \cap Ids(decision_logs) = {}

----------------------------------------------------------------------------
(* Service history: models.py, SERVICE HISTORY *)

\* service_date is an ISO text 'YYYY-MM-DD'; the number YYYYMMDD orders
\* exactly as the text SQLite compares.
Date(y, m, d) == y * 10000 + m * 100 + d
YearOf(dt) == dt \div 10000
MonthOf(dt) == (dt \div 100) % 100
DayOf(dt) == dt % 100

IsLeap(y) == y % 4 = 0 /\ (y % 100 # 0 \/ y % 400 = 0)

DaysIn(y, m) ==
    IF m = 2 THEN (IF IsLeap(y) THEN 29 ELSE 28)
    ELSE IF m \in {4, 6, 9, 11} THEN 30 ELSE 31

\* date('now', '-k months'): the month goes back k, and a day past the end
\* of that month runs over into the next one (Aug 31 - 6 months = Mar 3).
MonthsAgo(dt, k) ==
    LET months == YearOf(dt) * 12 + (MonthOf(dt) - 1) - k
        y == months \div 12
        m == (months % 12) + 1
        d == DayOf(dt)
    IN  IF d <= DaysIn(y, m) THEN Date(y, m, d)
        ELSE IF m = 12 THEN Date(y + 1, 1, d - DaysIn(y, m))
        ELSE Date(y, m + 1, d - DaysIn(y, m))

\* LIMIT 10 of the query.
LIMIT == 10

\* Bounds: rows already in the table at the start, and add_service_record
\* calls made afterwards.
MaxSeed == 15
MaxAdds == 1
\* The sizes of the starting table: empty, around the LIMIT, and the largest.
SeedSizes == {0, LIMIT - 1, LIMIT, LIMIT + 1, MaxSeed}

RecordSerials == {"ENG-X15-001", "ENG-ISX-002"}
QuerySerials == RecordSerials \cup {"ENG-UNKNOWN"}
MonthsBack == {6, 18}
Todays == {Date(2026, 8, 31), Date(2026, 11, 3)}
AllDates == <<Date(2025, 1, 1), Date(2026, 3, 3), Date(2026, 5, 3),
              Date(2026, 5, 4), Date(2026, 11, 3), Date(2027, 1, 1)>>
RecentDates == <<Date(2026, 5, 4), Date(2026, 7, 15), Date(2026, 8, 31)>>
AddDates == {Date(2026, 5, 3), Date(2026, 8, 31)}
AddedNote == "Customer reports low power"

\* One service_history row as add_service_record inserts it, with the
\* defaults of its signature; id is the AUTOINCREMENT rowid.
ServiceRecord(id, serial, service_date, notes) ==
    [id |-> id, engine_serial |-> serial, service_date |-> service_date,
     fault_code_input |-> "559", repair_type |-> "Replaced fuel filter",
     parts_replaced |-> NullStr, part_cost |-> 0, technician_id |-> NullStr,
     technician_notes |-> notes, warranty_status |-> "none"]

\* The seven columns the SELECT returns.
Selected(r) ==
    [service_date |-> r.service_date, fault_code_input |-> r.fault_code_input,
     repair_type |-> r.repair_type, parts_replaced |-> r.parts_replaced,
     part_cost |-> r.part_cost, technician_notes |-> r.technician_notes,
     warranty_status |-> r.warranty_status]

\* ORDER BY service_date DESC leaves the order of equal dates open: the
\* two tie-breaks are by rowid, ascending or descending.
TieBreaks == {"rowid_asc", "rowid_desc"}

Before(table, i, j, tie) ==
    \/ table[i].service_date > table[j].service_date
    \/ /\ table[i].service_date = table[j].service_date
       /\ IF tie = "rowid_asc" THEN i < j ELSE i > j

RECURSIVE OrderBy(_, _, _)
OrderBy(table, S, tie) ==
    IF S = {} THEN <<>>
    ELSE LET first == CHOOSE i \in S : \A j \in S \ {i} : Before(table, i, j, tie)
         IN  <<first>> \o OrderBy(table, S \ {first}, tie)

\* WHERE engine_serial = ? AND service_date > date('now', ? || ' months')
Where(table, serial, months_back, day) ==
    {i \in DOMAIN table : /\ table[i].engine_serial = serial
                          /\ table[i].service_date > MonthsAgo(day, months_back)}

get_service_history_no_limit(table, serial, months_back, day, tie) ==
    OrderBy(table, Where(table, serial, months_back, day), tie)

\* The rowids of the rows get_service_history returns, in order.
get_service_history(table, serial, months_back, day, tie) ==
    LET ordered == OrderBy(table, Where(table, serial, months_back, day), tie)
    IN  SubSeq(ordered, 1, IF Len(ordered) < LIMIT THEN Len(ordered) ELSE LIMIT)

GetServiceHistory ==
    /\ \E serial \in QuerySerials, months_back \in MonthsBack, tie \in TieBreaks :
        LET ids == get_service_history(service_history, serial, months_back, today, tie)
        IN  query' = [engine_serial |-> serial, months_back |-> months_back, ids |-> ids,
                      result |-> [k \in DOMAIN ids |-> Selected(service_history[ids[k]])]]
    /\ UNCHANGED <<service_history, engines, today>>
    /\ UNCHANGED <<orchVars, fnVars, dbVars>>

Added(table) == {i \in DOMAIN table : table[i].technician_notes = AddedNote}

AddServiceRecord ==
    /\ Cardinality(Added(service_history)) < MaxAdds
    /\ \E serial \in RecordSerials, service_date \in AddDates :
        service_history' = Append(service_history,
            ServiceRecord(Len(service_history) + 1, serial, service_date, AddedNote))
    /\ UNCHANGED <<engines, today, query>>
    /\ UNCHANGED <<orchVars, fnVars, dbVars>>

\* add_engine: INSERT OR IGNORE on the serial.
AddEngine ==
    /\ \E serial \in {"ENG-X15-001"} : engines' = engines \cup {serial}
    /\ UNCHANGED <<service_history, today, query>>
    /\ UNCHANGED <<orchVars, fnVars, dbVars>>

\* Tables the earlier add_service_record calls can have left: n rows, all
\* recent and of one engine, or of both engines with dates on both sides of
\* the window.
Seed(n, layout) ==
    [i \in 1..n |->
        IF layout = "recent"
        THEN ServiceRecord(i, "ENG-X15-001", RecentDates[(i % 3) + 1], NullStr)
        ELSE ServiceRecord(i, IF i % 4 = 0 THEN "ENG-ISX-002" ELSE "ENG-X15-001",
                           AllDates[(i % 6) + 1], NullStr)]

InitHistory ==
    /\ service_history \in {Seed(n, layout) : n \in SeedSizes, layout \in {"recent", "mixed"}}
    /\ engines = {}
    /\ today \in Todays
    /\ query = NoQuery
    /\ OrchIdle
    /\ FnIdle
    /\ DbIdle

HistoryNext == GetServiceHistory \/ AddServiceRecord \/ AddEngine

SpecHistory == InitHistory /\ [][HistoryNext]_vars

\* The rows of a table that a query for serial, months_back qualifies.
Qualifying(table, q, day) ==
    {i \in DOMAIN table : /\ table[i].engine_serial = q.engine_serial
                          /\ table[i].service_date > MonthsAgo(day, q.months_back)}

Range(f) == {f[k] : k \in DOMAIN f}

----------------------------------------------------------------------------
(* Frame of the decision-log operations (checked under SpecDb) *)

\* The context, input, AI-analysis and escalation fields of a row.
LoggedFields(r) ==
    <<r.id, r.timestamp, r.engine_serial, r.fault_code_input, r.fault_code_id,
      r.tech_id, r.triage_confidence, r.escalation_decision, r.requires_approval>>

ApprovalFields(r) == <<r.approved_by, r.approval_timestamp>>
OutcomeFields(r) == <<r.actual_repair, r.parts_used, r.repair_successful>>

\* C14 (as claimed): each log_decision call adds exactly one row, with a
\* fresh id and the id of the resolved fault code (null when unresolved), and
\* changes no other row; approve_decision changes only the approval fields
\* and updated_at of the addressed row, record_outcome only its outcome
\* fields and updated_at, and neither changes any other row.
C14_LoggedRowsFrame ==
    [][/\ Len(logged') > Len(logged) =>
            LET req == logged'[Len(logged')]
                resolved == resolve_by_notation(fault_codes,
                                Upper(Strip(PyStr(req.fault_code_input))))
            IN  \E r \in decision_logs' :
                  /\ r.id \notin Ids(decision_logs)
                  /\ decision_logs' = decision_logs \cup {r}
                  /\ r.fault_code_input = req.fault_code_input
                  /\ r.fault_code_id = IF resolved.found THEN resolved.row.id ELSE 0
       /\ \A r \in decision_logs : \E r2 \in decision_logs' :
            /\ LoggedFields(r2) = LoggedFields(r)
            /\ (last'.op = "approve_decision" /\ r.id = last'.id) =>
                  OutcomeFields(r2) = OutcomeFields(r)
            /\ (last'.op = "record_outcome" /\ r.id = last'.id) =>
                  ApprovalFields(r2) = ApprovalFields(r)
            /\ (last'.op \in {"approve_decision", "record_outcome"} /\ r.id # last'.id) =>
                  r2 = r
      ]_vars

----------------------------------------------------------------------------
(* Claims about the orchestrator's steps (checked under SpecOrch) *)

\* The stored relations are as the run found them.
NothingStored ==
    /\ decision_logs = {}
    /\ fault_codes = {}
    /\ seq = 0
    /\ logged = <<>>
    /\ service_history = <<>>
    /\ engines = {}

\* C13: the steps run in order, each on the output of the one before:
\* nothing of a later step exists before its turn, the evidence is that of
\* the engine, the diagnosis call carries the evidence summary as context,
\* the decision is the policy's answer to exactly the diagnosis confidence,
\* the bundle holds the inputs, that evidence, that diagnosis and that
\* decision, and no stored relation changes.
C13_StepsInOrder ==
    /\ pc = "history" => history = NoHistoryYet
    /\ pc \in {"history", "triage"} => run = NoRun /\ diagnosis = EmptyDict
    /\ pc \in {"history", "triage", "escalation"} => decision = NoDecision
    /\ pc # "done" => result = NoResult
    /\ pc # "history" => history = get_history(engine_serial)
    /\ pc \notin {"history", "triage"} =>
          run.prompt = [error_code |-> error_code, symptoms |-> symptoms,
                        context |-> get_history(engine_serial).summary]
    /\ pc \in {"escalation", "return", "done"} =>
          /\ diagnosis = diagnose(run).value
          /\ diagnose(run).raised = "none"
    /\ pc \in {"return", "done"} =>
          \E c \in Complexities :
              decision = decide(diagnosis.confidence.n, c, tech_level)
    /\ pc = "done" =>
          /\ result.input = [error_code |-> error_code, symptoms |-> symptoms,
                             engine_serial |-> engine_serial, tech_level |-> tech_level]
          /\ result.service_history = history
          /\ result.diagnosis = diagnosis
          /\ result.decision = decision
    /\ NothingStored

\* A run on an engine with history has returned its bundle.
C13_Witness ==
    /\ pc = "done"
    /\ engine_serial = "ENG-X15-001"
    /\ result.service_history.summary # "No service history found"
    /\ result.decision.decision = "ESCALATE"

\* C15: every run that reaches a decision escalates with approval required
\* exactly when the diagnosis confidence is below 70 and otherwise proceeds
\* with guidance without approval; it never answers PROCEED and never gives
\* high complexity as its reason.
C15_ConfidenceAloneDecides ==
    pc \in {"return", "done"} =>
        /\ IF diagnosis.confidence.n < 70
           THEN decision.decision = "ESCALATE" /\ decision.requires_approval
           ELSE decision.decision = "PROCEED_WITH_GUIDANCE" /\ ~decision.requires_approval
        /\ decision.decision # "PROCEED"
        /\ decision.reasoning # "High complexity, need senior approval"
        /\ pc = "done" => result.decision = decision

\* A run with confidence 100 has returned PROCEED_WITH_GUIDANCE.
C15_Witness ==
    /\ pc = "done"
    /\ result.diagnosis.confidence.n = 100
    /\ result.decision.decision = "PROCEED_WITH_GUIDANCE"

============================================================================
